---- MODULE Spec2Model ----
(***************************************************************************)
(* Model of the cover-letter generator (src/app.py): the text-emphasis     *)
(* pass apply_programmatic_bolding, the document assembly create_pdf and   *)
(* the two handlers of the Streamlit script ("Generate Draft" and          *)
(* "Download Final PDF") with the session state they share.                *)
(*                                                                         *)
(* Strings are sequences of one-character strings, so that splitting,      *)
(* case folding and regular-expression substitution are computed           *)
(* character by character as Python computes them.                         *)
(***************************************************************************)
EXTENDS Integers, Sequences, FiniteSets, TLC

VARIABLES
    pc,             \* position of the emphasis harness: "input" | "done"
    text,           \* argument `text` of the call of apply_programmatic_bolding
    company_name,   \* argument `company_name` of that call
    ret,            \* value returned by that call
    draft,          \* st.session_state["draft"], or NoDraft
    data,           \* st.session_state["data"], or NoData
    edited_text,    \* value of the "Review & Edit" text area
    response,       \* raw completion behind the stored draft
    run             \* what the last script run did and showed
\* text, company_name and ret describe the call made by the last script run
\* and are empty when it made none.

vars == <<pc, text, company_name, ret, draft, data, edited_text, response, run>>

-----------------------------------------------------------------------------
(* Python string primitives *)

UPPER == <<"A","B","C","D","E","F","G","H","I","J","K","L","M",
           "N","O","P","Q","R","S","T","U","V","W","X","Y","Z">>
LOWER == <<"a","b","c","d","e","f","g","h","i","j","k","l","m",
           "n","o","p","q","r","s","t","u","v","w","x","y","z">>

LowerMap == [c \in {UPPER[i] : i \in 1..26} |->
                LOWER[CHOOSE i \in 1..26 : UPPER[i] = c]]
UpperMap == [c \in {LOWER[i] : i \in 1..26} |->
                UPPER[CHOOSE i \in 1..26 : LOWER[i] = c]]

\* str.lower()
lower(s) == [i \in 1..Len(s) |->
                IF s[i] \in DOMAIN LowerMap THEN LowerMap[s[i]] ELSE s[i]]

\* str.upper()
upper(s) == [i \in 1..Len(s) |->
                IF s[i] \in DOMAIN UpperMap THEN UpperMap[s[i]] ELSE s[i]]

\* `sub in s`
contains(s, sub) ==
    \/ Len(sub) = 0
    \/ \E i \in 1..(Len(s) - Len(sub) + 1) :
          s[i] = sub[1] /\ SubSeq(s, i, i + Len(sub) - 1) = sub

\* the paragraph separator "\n\n"
SEP == <<"\n", "\n">>
NL == <<"\n">>

\* str.split(sep): non-overlapping separators, found left to right
RECURSIVE split_from(_, _, _, _)
split_from(s, sep, i, start) ==
    IF i + Len(sep) - 1 > Len(s) THEN <<SubSeq(s, start, Len(s))>>
    ELSE IF s[i] = sep[1] /\ SubSeq(s, i, i + Len(sep) - 1) = sep
         THEN <<SubSeq(s, start, i - 1)>>
              \o split_from(s, sep, i + Len(sep), i + Len(sep))
         ELSE split_from(s, sep, i + 1, start)

split(s, sep) == split_from(s, sep, 1, 1)

\* parts joined by a single line break
RECURSIVE join_single_newline(_)
join_single_newline(parts) ==
    IF Len(parts) = 0 THEN <<>>
    ELSE IF Len(parts) = 1 THEN parts[1]
    ELSE parts[1] \o NL \o join_single_newline(Tail(parts))

\* "\n\n".join(parts)
RECURSIVE join(_)
join(parts) ==
    IF Len(parts) = 0 THEN <<>>
    ELSE IF Len(parts) = 1 THEN parts[1]
    ELSE parts[1] \o SEP \o join(Tail(parts))

\* str.strip(): leading and trailing whitespace removed
IsSpace(c) == c \in {" ", "\n", "\t"}

RECURSIVE lstrip(_)
lstrip(s) == IF Len(s) > 0 /\ IsSpace(s[1]) THEN lstrip(Tail(s)) ELSE s

RECURSIVE rstrip(_)
rstrip(s) ==
    IF Len(s) > 0 /\ IsSpace(s[Len(s)]) THEN rstrip(SubSeq(s, 1, Len(s) - 1)) ELSE s

strip(s) == rstrip(lstrip(s))

\* re.sub(re.escape(pattern), repl, string, flags=re.IGNORECASE): every
\* leftmost non-overlapping literal, case-insensitive match is replaced by
\* repl (repl has no backslash in the strings drawn here, so the template
\* is inserted as written). An empty pattern matches before every
\* character and at the end.
match_at(lpattern, lstring, j) ==
    /\ j + Len(lpattern) - 1 <= Len(lstring)
    /\ \/ Len(lpattern) = 0
       \/ lstring[j] = lpattern[1] /\ SubSeq(lstring, j, j + Len(lpattern) - 1) = lpattern

\* start of the leftmost match at or after i, 0 when there is none
next_match(lpattern, lstring, i) ==
    LET hits == {j \in i..(Len(lstring) + 1) : match_at(lpattern, lstring, j)}
    IN  IF hits = {} THEN 0 ELSE CHOOSE j \in hits : \A k \in hits : j <= k

RECURSIVE re_sub_from(_, _, _, _, _)
re_sub_from(lpattern, repl, string, lstring, i) ==
    LET n == Len(lpattern)
        m == next_match(lpattern, lstring, i)
    IN  IF m = 0 THEN SubSeq(string, i, Len(string))
        ELSE IF n = 0
             THEN IF m > Len(string) THEN repl
                  ELSE repl \o <<string[m]>> \o re_sub_from(lpattern, repl, string, lstring, m + 1)
             ELSE SubSeq(string, i, m - 1) \o repl
                  \o re_sub_from(lpattern, repl, string, lstring, m + n)

re_sub(pattern, repl, string) ==
    re_sub_from(lower(pattern), repl, string, lower(string), 1)

\* f"<b>{s}</b>"
BOpen == <<"<", "b", ">">>
BClose == <<"<", "/", "b", ">">>
bold(s) == BOpen \o s \o BClose

-----------------------------------------------------------------------------
(* KEYWORDS, in declaration order *)

core_finance == <<
    <<"f","i","n","a","n","c","i","a","l"," ","r","e","p","o","r","t","i","n","g">>,
    <<"m","o","n","t","h","-","e","n","d"," ","c","l","o","s","u","r","e">>,
    <<"r","e","c","o","n","c","i","l","i","a","t","i","o","n","s">>,
    <<"a","c","c","o","u","n","t","i","n","g"," ","c","o","n","t","r","o","l","s">>,
    <<"f","i","n","a","n","c","i","a","l"," ","g","o","v","e","r","n","a","n","c","e">>,
    <<"d","a","t","a"," ","a","c","c","u","r","a","c","y">>,
    <<"c","o","m","p","l","i","a","n","c","e">> >>

operations == <<
    <<"P","r","o","c","u","r","e","-","t","o","-","P","a","y">>,
    <<"R","e","c","o","r","d","-","t","o","-","R","e","p","o","r","t">>,
    <<"t","r","a","n","s","a","c","t","i","o","n"," ","f","l","o","w","s">>,
    <<"p","r","o","c","e","s","s"," ","e","f","f","i","c","i","e","n","c","y">>,
    <<"s","y","s","t","e","m","s"," ","e","x","p","o","s","u","r","e">> >>

analysis == <<
    <<"M","I","S">>,
    <<"v","a","r","i","a","n","c","e"," ","a","n","a","l","y","s","i","s">>,
    <<"f","i","n","a","n","c","i","a","l"," ","a","n","a","l","y","s","i","s">>,
    <<"d","e","c","i","s","i","o","n"," ","s","u","p","p","o","r","t">> >>

\* KEYWORDS.values(): the groups in insertion order
KEYWORDS == <<core_finance, operations, analysis>>

-----------------------------------------------------------------------------
(* apply_programmatic_bolding *)

\* the nested loops `for group in KEYWORDS.values(): for kw in group:`
\* appending every kw with kw.lower() in bolded.lower()
\* kw.lower() for every kw of KEYWORDS
KEYWORDS_lower == [g \in 1..Len(KEYWORDS) |->
                    [k \in 1..Len(KEYWORDS[g]) |-> lower(KEYWORDS[g][k])]]

RECURSIVE collect_group(_, _, _)
collect_group(g, lbolded, k) ==
    IF k > Len(KEYWORDS[g]) THEN <<>>
    ELSE (IF contains(lbolded, KEYWORDS_lower[g][k]) THEN <<KEYWORDS[g][k]>> ELSE <<>>)
         \o collect_group(g, lbolded, k + 1)

RECURSIVE collect_from(_, _)
collect_from(lbolded, g) ==
    IF g > Len(KEYWORDS) THEN <<>>
    ELSE collect_group(g, lbolded, 1) \o collect_from(lbolded, g + 1)

collect_candidates(bolded) == collect_from(lower(bolded), 1)

\* candidates[:4]
first_four_candidates(candidates) ==
    SubSeq(candidates, 1, IF Len(candidates) < 4 THEN Len(candidates) ELSE 4)

\* candidates[:3]
KeywordLimit == 3
first_candidates(candidates) ==
    SubSeq(candidates, 1, IF Len(candidates) < KeywordLimit THEN Len(candidates) ELSE KeywordLimit)

\* `for kw in candidates[:3]: bolded = re.sub(...)`
RECURSIVE bold_keywords(_, _)
bold_keywords(bolded, kws) ==
    IF Len(kws) = 0 THEN bolded
    ELSE bold_keywords(re_sub(kws[1], bold(kws[1]), bolded), Tail(kws))

\* the test without the flag
company_hit_in_every_paragraph(used_company, company, bolded) ==
    contains(lower(bolded), lower(company))

\* the test guarding the company substitution
company_hit(used_company, company, bolded) ==
    ~used_company /\ contains(lower(bolded), lower(company))

\* the company substitution
bold_company(company, bolded) == re_sub(company, bold(company), bolded)

\* one iteration of `for para in paragraphs`, returning the appended paragraph
bold_paragraph(para, company, used_company) ==
    LET hit == company_hit(used_company, company, para)
        b1 == IF hit THEN bold_company(company, para) ELSE para
    IN  bold_keywords(b1, first_candidates(collect_candidates(b1)))

\* the loop over paragraphs, threading used_company
RECURSIVE bold_paragraphs(_, _, _, _)
bold_paragraphs(paragraphs, company, used_company, p) ==
    IF p > Len(paragraphs) THEN <<>>
    ELSE LET hit == company_hit(used_company, company, paragraphs[p])
         IN  <<bold_paragraph(paragraphs[p], company, used_company)>>
             \o bold_paragraphs(paragraphs, company, used_company \/ hit, p + 1)

apply_programmatic_bolding(t, company) ==
    join(bold_paragraphs(split(t, SEP), company, FALSE, 1))

-----------------------------------------------------------------------------
(* Input texts of the emphasis harness: concatenations of a few words *)

RECURSIVE concat(_)
concat(ws) == IF Len(ws) = 0 THEN <<>> ELSE ws[1] \o concat(Tail(ws))

WordSeqs(V, n) == UNION {[1..k -> V] : k \in 0..n}

\* the texts made of at most n words of V
TextsOver(V, n) == {concat(ws) : ws \in WordSeqs(V, n)}

\* the sequences of at most n words of V, no word used twice
RECURSIVE DistinctSeqs(_, _)
DistinctSeqs(V, n) ==
    IF n = 0 THEN {<<>>}
    ELSE LET shorter == DistinctSeqs(V, n - 1)
             longest == {w \in shorter : Len(w) = n - 1}
         IN  shorter \cup {Append(e[1], e[2]) :
                             e \in {x \in longest \X V :
                                      \A i \in 1..Len(x[1]) : x[1][i] # x[2]}}

\* the texts made of at most n words of V, no word used twice
TextsOfDistinct(V, n) == {concat(ws) : ws \in DistinctSeqs(V, n)}

IBM == <<"I","B","M">>
Ibm == <<"I","b","m">>
MIS == <<"M","I","S">>
mis == <<"m","i","s">>
mi == <<"m","i">>
Compliance == <<"C","o","m","p","l","i","a","n","c","e">>
data_accuracy == <<"d","a","t","a"," ","a","c","c","u","r","a","c","y">>
procure_to_pay == <<"p","r","o","c","u","r","e","-","t","o","-","p","a","y">>
systems_exposure == <<"s","y","s","t","e","m","s"," ","e","x","p","o","s","u","r","e">>

\* texts about the company name: the name in two casings, a keyword, the
\* separator, in any number and order
CompanyWords == {IBM, Ibm, mis, SEP}
MaxCompanyWords == 5
CompanyNames == {IBM, MIS}

\* texts about keywords: five catalog keywords (one of them in two casings,
\* none in catalog casing but MIS), the separator, each at most once
KeywordWords == {mis, MIS, Compliance, data_accuracy, procure_to_pay, systems_exposure, SEP}
MaxKeywordWords == 6

\* texts in which emphasized terms touch: a fragment that makes two keywords
\* share a character ("mi" + "systems exposure"), and keywords next to a
\* company name that is itself a keyword
OverlapWords == {mi, mis, systems_exposure, Compliance, data_accuracy, procure_to_pay}
MaxOverlapWords == 4

EmphasisInputs ==
    {<<t, c>> : t \in TextsOver(CompanyWords, MaxCompanyWords), c \in CompanyNames}
    \cup {<<t, IBM>> : t \in TextsOfDistinct(KeywordWords, MaxKeywordWords)}
    \cup {<<t, c>> : t \in TextsOfDistinct(OverlapWords, MaxOverlapWords), c \in CompanyNames}

-----------------------------------------------------------------------------------------------------------------------------------------------------
(* create_pdf *)

BR == <<"<","b","r","/",">">>
Sincerely == <<"S","i","n","c","e","r","e","l","y",",">>
DateLabel == <<"D","a","t","e",":"," ">>
Salutation == <<"D","e","a","r"," ","H","i","r","i","n","g"," ","M","a","n","a","g","e","r",",">>

\* the markup of the first Paragraph: name in capitals and bold, date, salutation
header_markup(d, today) ==
    bold(upper(d.name)) \o BR \o DateLabel \o today \o BR \o BR \o Salutation \o BR \o BR

\* the closing with e-mail and mobile exchanged
closing_markup_email_first(d) ==
    NL \o Sincerely \o BR \o BR \o NL \o d.name \o BR \o NL \o d.email \o BR \o NL
       \o d.mobile \o BR \o NL \o d.linkedin \o NL

\* the f-string `closing`
closing_markup(d) ==
    NL \o Sincerely \o BR \o BR \o NL \o d.name \o BR \o NL \o d.mobile \o BR \o NL
       \o d.email \o BR \o NL \o d.linkedin \o NL

\* Paragraph(markup, style) parses its markup when constructed and raises on
\* a tag that is not closed, a closing tag without its opening tag, or a
\* "<" that starts none of the tags used here.
RECURSIVE markup_ok_from(_, _, _)
markup_ok_from(m, i, depth) ==
    IF i > Len(m) THEN depth = 0
    ELSE IF m[i] # "<" THEN markup_ok_from(m, i + 1, depth)
    ELSE IF SubSeq(m, i, i + 2) = BOpen THEN markup_ok_from(m, i + 3, depth + 1)
    ELSE IF SubSeq(m, i, i + 3) = BClose THEN depth > 0 /\ markup_ok_from(m, i + 4, depth - 1)
    ELSE IF SubSeq(m, i, i + 4) = BR THEN markup_ok_from(m, i + 5, depth)
    ELSE FALSE

markup_ok(m) == markup_ok_from(m, 1, 0)

Paragraph(markup, style) == [text |-> markup, style |-> style]

\* the list `elements` handed to doc.build
pdf_elements(t, d, today) ==
    LET paras == split(t, SEP)
    IN  <<Paragraph(header_markup(d, today), "Header")>>
        \o [i \in 1..Len(paras) |-> Paragraph(paras[i], "Body")]
        \o <<Paragraph(closing_markup(d), "Header")>>

\* create_pdf returns the built document, or raises at the first Paragraph
\* whose markup does not parse
create_pdf(t, d, today) ==
    LET elements == pdf_elements(t, d, today)
    IN  IF \A i \in 1..Len(elements) : markup_ok(elements[i].text)
        THEN [ok |-> TRUE, elements |-> elements]
        ELSE [ok |-> FALSE, elements |-> <<>>]

-----------------------------------------------------------------------------
(* Session state and the inputs of a session *)

NoDraft == "NoDraft"
NoData == "NoData"
NoForm == "NoForm"

LastRun(action, outcome, form, extract_calls, generate_called, pdf) ==
    [action |-> action, outcome |-> outcome, form |-> form,
     extract_calls |-> extract_calls, generate_called |-> generate_called,
     pdf |-> pdf]

Idle == LastRun("none", "none", NoForm, 0, FALSE, <<>>)

Al == <<"A","l">>
Names == {<<>>, Al}
Companies == {<<>>, IBM, MIS}
Roles == {<<>>, <<"C","A">>}
Contacts == {
    [email |-> <<>>, mobile |-> <<>>, linkedin |-> <<>>],
    [email |-> <<"a","l","@","x",".","i","o">>, mobile |-> <<"9","9">>,
     linkedin |-> <<"i","n","/","a","l">>] }
Dates == {<<"0","4"," ","M","a","r","c","h"," ","2","0","2","5">>}

\* completions of the text-generation service
TwoParagraphs == IBM \o SEP \o Ibm \o <<" ">> \o mis
FiveParagraphs == mis \o SEP \o IBM \o SEP \o <<"a">> \o SEP \o Compliance \o SEP \o <<"b">>
Completions == {IBM \o NL, TwoParagraphs, FiveParagraphs, mis \o <<" ">> \o mis}

\* texts the user may type over the draft
Edits == {<<>>, BOpen \o IBM, Compliance \o BClose, Ibm \o SEP \o IBM}

-----------------------------------------------------------------------------
(* The Streamlit script: one action per kind of script run *)

Init ==
    /\ pc = "session"
    /\ text = <<>>
    /\ company_name = <<>>
    /\ ret = <<>>
    /\ draft = NoDraft
    /\ data = NoData
    /\ edited_text = <<>>
    /\ response = <<>>
    /\ run = Idle

\* the test without the role
missing_without_role(form) ==
    ~form.resume \/ form.name = <<>> \/ form.company = <<>>

\* `not resume or not name or not company or not role`
missing(form) ==
    ~form.resume \/ form.name = <<>> \/ form.company = <<>> \/ form.role = <<>>

\* extract_text is called for the resume, and for the job description if uploaded
extract_calls(jd) == IF jd THEN 2 ELSE 1

\* A run that ends before the text area is reached (st.stop() or an
\* exception) does not render the text area; Streamlit may then discard the
\* typed value, and the next run shows the stored draft again.
unrendered_text_area ==
    edited_text' \in {edited_text} \cup (IF draft = NoDraft THEN {} ELSE {draft})

\* a run that does not reach apply_programmatic_bolding
no_call == text' = <<>> /\ company_name' = <<>> /\ ret' = <<>>

\* "Generate Draft" pressed with a mandatory field missing
SubmitRefused(form) ==
    /\ missing(form)
    /\ run' = LastRun("submit", "refused", form, 0, FALSE, <<>>)
    /\ unrendered_text_area
    /\ no_call
    /\ UNCHANGED <<pc, draft, data, response>>

\* "Generate Draft" pressed, the generation service (or the extraction) raises
SubmitFails(form, jd) ==
    /\ ~missing(form)
    /\ run' = LastRun("submit", "error", form, extract_calls(jd), TRUE, <<>>)
    /\ unrendered_text_area
    /\ no_call
    /\ UNCHANGED <<pc, draft, data, response>>

\* the draft and the profile stored by a successful "Generate Draft"
stored_draft(completion, company) == apply_programmatic_bolding(strip(completion), company)

stored_data(form, contact) ==
    [name |-> form.name, company |-> form.company, role |-> form.role,
     email |-> contact.email, mobile |-> contact.mobile, linkedin |-> contact.linkedin]

\* "Generate Draft" pressed with all mandatory fields, the service answers.
\* The text area shows the stored draft; it keeps what was typed only when
\* the new draft equals the one it was showing.
SubmitDraft(form, jd, contact, completion) ==
    /\ ~missing(form)
    /\ response' = strip(completion)
    /\ text' = strip(completion)
    /\ company_name' = form.company
    /\ ret' = stored_draft(completion, form.company)
    /\ draft' = ret'
    /\ data' = stored_data(form, contact)
    /\ edited_text' = IF draft' = draft THEN edited_text ELSE draft'
    /\ run' = LastRun("submit", "draft", form, extract_calls(jd), TRUE, <<>>)
    /\ UNCHANGED pc

Forms == [resume : BOOLEAN, name : Names, company : Companies, role : Roles]

Submit ==
    \E form \in Forms :
        \/ SubmitRefused(form)
        \/ \E jd \in BOOLEAN :
            \/ SubmitFails(form, jd)
            \/ \E contact \in Contacts, completion \in Completions :
                    SubmitDraft(form, jd, contact, completion)

\* the user types in the text area
Edit ==
    /\ draft # NoDraft
    /\ \E t \in Edits : edited_text' = t
    /\ run' = LastRun("edit", "none", NoForm, 0, FALSE, <<>>)
    /\ no_call
    /\ UNCHANGED <<pc, draft, data, response>>

\* the download handler passing the stored draft
download_text_from_draft(edited, stored) == stored

\* the first argument of apply_programmatic_bolding in the download handler
download_text(edited, stored) == edited

\* the download handler storing the final text as the draft
download_stores_final_text == draft' = ret' /\ UNCHANGED <<data, response>>

\* the download handler assigns nothing to st.session_state
download_session == UNCHANGED <<draft, data, response>>

\* "Download Final PDF" pressed
Download ==
    /\ draft # NoDraft
    /\ \E today \in Dates :
        LET final_text == apply_programmatic_bolding(download_text(edited_text, draft),
                                                     data.company)
            pdf == create_pdf(final_text, data, today)
        IN  /\ text' = download_text(edited_text, draft)
            /\ company_name' = data.company
            /\ ret' = final_text
            /\ run' = LastRun("download", IF pdf.ok THEN "pdf" ELSE "error", NoForm,
                              0, FALSE, pdf.elements)
    /\ download_session
    /\ UNCHANGED <<pc, edited_text>>

Next == Submit \/ Edit \/ Download

Spec == Init /\ [][Next]_vars

-----
(* The emphasis pass on its own: any input, one call *)

InitEmphasis ==
    /\ pc = "input"
    /\ \E in \in EmphasisInputs : text = in[1] /\ company_name = in[2]
    /\ ret = <<>>
    /\ draft = NoDraft
    /\ data = NoData
    /\ edited_text = <<>>
    /\ response = <<>>
    /\ run = Idle

Bold ==
    /\ pc = "input"
    /\ ret' = apply_programmatic_bolding(text, company_name)
    /\ pc' = "done"
    /\ UNCHANGED <<text, company_name, draft, data, edited_text, response, run>>

NextEmphasis == Bold

SpecEmphasis == InitEmphasis /\ [][NextEmphasis]_vars

-----------------------------------------------------------------------------
(* Vocabulary of the properties *)

\* every keyword of KEYWORDS, in declaration order, as written and in lower case
AllKeywords == KEYWORDS[1] \o KEYWORDS[2] \o KEYWORDS[3]
AllKeywordsLower == KEYWORDS_lower[1] \o KEYWORDS_lower[2] \o KEYWORDS_lower[3]
K == 1..Len(AllKeywords)

\* positions at which lx occurs in ls (both in lower case)
OccL(ls, lx) ==
    {i \in 1..(Len(ls) - Len(lx) + 1) : ls[i] = lx[1] /\ SubSeq(ls, i, i + Len(lx) - 1) = lx}

\* positions at which x occurs in s, compared without regard to case
Occ(s, x) == OccL(lower(s), lower(x))

\* position i of s, where a term of n characters starts, stands directly
\* between <b> and </b>
MarkedAt(s, n, i) ==
    /\ i > 3
    /\ SubSeq(s, i - 3, i - 1) = BOpen
    /\ SubSeq(s, i + n, i + n + 3) = BClose

\* the occurrences of x in s that stand directly between <b> and </b>
MarkedOcc(s, x) == {i \in Occ(s, x) : MarkedAt(s, Len(x), i)}

Occurs(s, x) == Occ(s, x) # {}

\* s with every <b> and </b> removed
RECURSIVE Unmarked(_)
Unmarked(s) ==
    IF Len(s) = 0 THEN <<>>
    ELSE IF s[1] = "<" /\ SubSeq(s, 1, 3) = BOpen THEN Unmarked(SubSeq(s, 4, Len(s)))
    ELSE IF s[1] = "<" /\ SubSeq(s, 1, 4) = BClose THEN Unmarked(SubSeq(s, 5, Len(s)))
    ELSE <<s[1]>> \o Unmarked(Tail(s))

\* the deepest nesting of <b> in s
RECURSIVE DepthFrom(_, _, _)
DepthFrom(s, i, depth) ==
    IF i > Len(s) THEN depth
    ELSE IF s[i] = "<" /\ SubSeq(s, i, i + 2) = BOpen
         THEN LET rest == DepthFrom(s, i + 3, depth + 1)
              IN  IF rest > depth + 1 THEN rest ELSE depth + 1
    ELSE IF s[i] = "<" /\ SubSeq(s, i, i + 3) = BClose
         THEN LET rest == DepthFrom(s, i + 4, depth - 1)
              IN  IF rest > depth THEN rest ELSE depth
    ELSE DepthFrom(s, i + 1, depth)

MaxDepth(s) == DepthFrom(s, 1, 0)

\* the paragraphs given to the emphasis pass and the paragraphs it returned
ParasIn == split(text, SEP)
ParasOut == split(ret, SEP)

\* the paragraphs in which the company name occurs
CompanyParas == {p \in 1..Len(ParasIn) : Occurs(ParasIn[p], company_name)}

\* indices (in declaration order) of the keywords present in a paragraph
Present(para) ==
    LET lpara == lower(para) IN {k \in K : OccL(lpara, AllKeywordsLower[k]) # {}}

\* the first three of a set of keyword indices, in declaration order
FirstThree(present) == {k \in present : Cardinality({j \in present : j < k}) < 3}

\* indices of the keywords that have a marked occurrence in a paragraph
Marked(para) ==
    LET lpara == lower(para)
    IN  {k \in K : \E i \in OccL(lpara, AllKeywordsLower[k]) :
                        MarkedAt(para, Len(AllKeywords[k]), i)}

\* the characters covered by the occurrences of lx in ls
Covered(ls, lx) == UNION {i..(i + Len(lx) - 1) : i \in OccL(ls, lx)}

\* no two occurrences of different emphasized terms (keywords, company name)
\* share a character of the paragraph
Disjoint(para) ==
    LET lpara == lower(para)
        present == Present(para)
        company == Covered(lpara, lower(company_name))
    IN  \/ Cardinality(present) = 0
        \/ /\ \A j, k \in present :
                j < k => Covered(lpara, AllKeywordsLower[j])
                            \cap Covered(lpara, AllKeywordsLower[k]) = {}
           /\ \A k \in present : Covered(lpara, AllKeywordsLower[k]) \cap company = {}

Done == pc = "done"

-----------------------------------------------------------------------------
(* Properties of the emphasis pass, checked under SpecEmphasis *)

\* C1, as stated: when the company name does not occur in the text, the
\* pass returns the text unchanged.
C1_TextReturnedWithoutCompany ==
    (Done /\ ~Occurs(text, company_name)) => ret = text

\* C1, amended: when neither the company name nor any catalog keyword occurs
\* in the text, the pass returns the text unchanged.
C1_TextReturnedWithoutCompanyAndKeywords ==
    (Done /\ ~Occurs(text, company_name) /\ Present(text) = {}) => ret = text

C1_Witness ==
    /\ Done
    /\ ~Occurs(text, company_name)
    /\ Present(text) = {}
    /\ Len(ParasIn) > 2
    /\ Len(text) > 8
    /\ ret = text

\* C2: when the company name occurs in exactly one paragraph, however many
\* times, exactly one occurrence in the whole output is marked.
C2_OneCompanyOccurrenceMarked ==
    (Done /\ Cardinality(CompanyParas) = 1)
        => Cardinality(MarkedOcc(ret, company_name)) = 1

\* what the emphasis pass is to do with the keywords of a paragraph: the
\* marked keywords of the output paragraph are the first three present in
\* the input paragraph in declaration order, and every occurrence of each
\* of them is marked
KeywordsMarked(in, out) ==
    LET chosen == FirstThree(Present(in))
    IN  /\ Marked(out) = chosen
        /\ \A k \in chosen :
              /\ Occ(out, AllKeywords[k]) = MarkedOcc(out, AllKeywords[k])
              /\ Cardinality(MarkedOcc(out, AllKeywords[k]))
                    = Cardinality(Occ(in, AllKeywords[k]))

\* C3, as stated: in every paragraph the marked keywords are the first three
\* of the keywords present, in declaration order; every occurrence of each
\* is marked and the other keywords present are not.
C3_FirstThreeKeywordsMarked ==
    Done => LET in == ParasIn
                out == ParasOut
            IN  /\ Len(out) = Len(in)
                /\ \A p \in 1..Len(in) : KeywordsMarked(in[p], out[p])

\* C3, amended: the same, for every paragraph in which no occurrence of a
\* keyword shares a character with an occurrence of another keyword or of
\* the company name.
C3_FirstThreeDisjointKeywordsMarked ==
    Done => LET in == ParasIn
                out == ParasOut
            IN  /\ Len(out) = Len(in)
                /\ \A p \in 1..Len(in) :
                      Disjoint(in[p]) => KeywordsMarked(in[p], out[p])

\* a paragraph with five keywords, one of them twice or in another order
\* than the declaration order, three of them marked
C3_Witness ==
    /\ Done
    /\ \E p \in 1..Len(ParasIn) :
          /\ Len(ParasIn[p]) > 3
          /\ SubSeq(ParasIn[p], 1, 3) = mis
          /\ Cardinality(Present(ParasIn[p])) = 5
          /\ Disjoint(ParasIn[p])
          /\ Cardinality(Marked(ParasOut[p])) = 3
          /\ KeywordsMarked(ParasIn[p], ParasOut[p])

\* C5: removing the markers from the output gives back the text, character
\* for character.
C5_CasingPreserved ==
    Done => Unmarked(ret) = text

\* the company name is no keyword, nor part of one, nor is a keyword part of it
CompanyApart ==
    \A k \in K :
        ~Occurs(AllKeywords[k], company_name) /\ ~Occurs(company_name, AllKeywords[k])

FirstCompanyPara == CHOOSE p \in CompanyParas : \A q \in CompanyParas : p <= q

\* C10: when the company name occurs in two or more paragraphs, only the
\* earliest of them gets company markup.
C10_CompanyMarkedInEarliestParagraphOnly ==
    (Done /\ Cardinality(CompanyParas) >= 2 /\ CompanyApart)
        => /\ Len(ParasOut) = Len(ParasIn)
           /\ MarkedOcc(ParasOut[FirstCompanyPara], company_name) # {}
           /\ \A p \in 1..Len(ParasOut) :
                 p # FirstCompanyPara => MarkedOcc(ParasOut[p], company_name) = {}

C10_Witness ==
    /\ Done
    /\ CompanyApart
    /\ Cardinality(CompanyParas) >= 2
    /\ FirstCompanyPara > 1
    /\ MarkedOcc(ParasOut[FirstCompanyPara], company_name) # {}
    /\ \E p \in CompanyParas : MarkedOcc(ParasOut[p], company_name) = {}

-----------------------------------------------------------------------------
(* Properties of the session, checked under Spec *)

Downloaded == run.action = "download"

\* C4: when the draft made by "Generate Draft" from a completion without
\* markers is downloaded as it stands, no term of the text handed to
\* create_pdf is inside more than one pair of bold markers.
C4_NoDoubleWrapOnDownload ==
    (Downloaded /\ edited_text = draft /\ Unmarked(response) = response)
        => MaxDepth(ret) <= 1

\* resume, name, company and role are all given
Mandatory(form) ==
    form.resume /\ form.name # <<>> /\ form.company # <<>> /\ form.role # <<>>

\* C6: a "Generate Draft" with a mandatory field missing is refused: neither
\* extraction nor generation is called, and the stored draft and profile stay
\* as they were.
C6_RefusedSubmitKeepsSession ==
    [][(run'.action = "submit" /\ ~Mandatory(run'.form))
          => /\ run'.outcome = "refused"
             /\ run'.extract_calls = 0
             /\ ~run'.generate_called
             /\ draft' = draft
             /\ data' = data]_vars

\* a refused submission (only the role missing) with a draft in the session
C6_Witness ==
    /\ run.action = "submit"
    /\ run.outcome = "refused"
    /\ run.form.resume /\ run.form.name # <<>> /\ run.form.company # <<>>
    /\ run.form.role = <<>>
    /\ draft # NoDraft
    /\ run.form.company # data.company

\* the lines of a block: its markup cut at the line breaks
Lines(markup) ==
    LET parts == split(markup, BR)
    IN  [i \in 1..Len(parts) |-> strip(parts[i])]

\* the document is one header block, one body block per paragraph of the
\* text handed to create_pdf, in order, and one closing block with the four
\* contact lines
Assembled ==
    LET paras == split(ret, SEP)
        n == Len(paras)
    IN  /\ Len(run.pdf) = n + 2
        /\ run.pdf[1].style = "Header"
        /\ \E today \in Dates :
              Lines(run.pdf[1].text)
                 = <<bold(upper(data.name)), DateLabel \o today, <<>>, Salutation, <<>>, <<>>>>
        /\ \A i \in 1..n : run.pdf[i + 1] = [text |-> paras[i], style |-> "Body"]
        /\ run.pdf[n + 2].style = "Header"
        /\ Lines(run.pdf[n + 2].text)
              = <<Sincerely, <<>>, data.name, data.mobile, data.email, data.linkedin>>

\* every <b> of s is closed and every </b> closes one
RECURSIVE BalancedFrom(_, _, _)
BalancedFrom(s, i, depth) ==
    IF i > Len(s) THEN depth = 0
    ELSE IF s[i] = "<" /\ SubSeq(s, i, i + 2) = BOpen THEN BalancedFrom(s, i + 3, depth + 1)
    ELSE IF s[i] = "<" /\ SubSeq(s, i, i + 3) = BClose
         THEN depth > 0 /\ BalancedFrom(s, i + 4, depth - 1)
    ELSE BalancedFrom(s, i + 1, depth)

Balanced(s) == BalancedFrom(s, 1, 0)

C8_DownloadKeepsSession ==
    [][run'.action = "download" => (draft' = draft /\ data' = data)]_vars

\* a failed download of an edited text
C8_Witness ==
    /\ Downloaded
    /\ run.outcome = "error"
    /\ edited_text # draft
    /\ ~Balanced(ret)

\* the texts of the body blocks of the document
Bodies == [i \in 1..(Len(run.pdf) - 2) |-> run.pdf[i + 1].text]

\* C9: at a download the emphasis pass is given the text of the edit box and
\* the company name of the stored profile, and its result is what the
\* document is made of.
C9_DownloadUsesEditedText ==
    Downloaded => /\ text = edited_text
                  /\ company_name = data.company
                  /\ run.outcome = "pdf" => Bodies = split(ret, SEP)

\* a download of a text that differs from the stored draft
C9_Witness ==
    /\ Downloaded
    /\ run.outcome = "pdf"
    /\ edited_text # draft
    /\ text = edited_text
    /\ ret # draft
    /\ MarkedOcc(ret, data.company) # {}

====
